---- MODULE Spec2Model ----
(***************************************************************************)
(* The cost-matrix / maximal-covering pipeline of the repository:          *)
(*   scripts/make_cost_matrix_full.py   demand x candidate distances       *)
(*   scripts/solve_max_coverage_full.py the MCLP integer program           *)
(*   scripts/evaluate_solution.py       nearest-supply metrics of a result *)
(*   scripts/baseline_metrics.py        the same metrics without a result  *)
(* The scripts are separate programs that communicate through files; the   *)
(* files are state variables, each script's main() is an action (main of   *)
(* the solver is split at its one blocking call, solver.Solve()).          *)
(*                                                                         *)
(* Encodings.                                                              *)
(*  - A coordinate pair is a record [finite, x, y]; finite = FALSE is a    *)
(*    point whose x or y is not a finite number (geometry.x of a missing   *)
(*    geometry is NaN).                                                    *)
(*  - A distance is the record [nan, sq]: the float sqrt(sq), or NaN.      *)
(*    sqrt is monotone and exact on perfect squares, so for an integer     *)
(*    threshold t,  sqrt(sq) <= t  iff  t >= 0 and sq <= t*t ; every       *)
(*    comparison with NaN is false.                                        *)
(*  - Indices i, j are 0-based as in the files; sequences are 1-based.     *)
(***************************************************************************)
EXTENDS Integers, Sequences, FiniteSets, TLC

VARIABLES
    demand,        \* DEMAND file: the demand points, in file order
    cand,          \* CAND file: the candidate points, in file order
    P,             \* module global P of solve_max_coverage_full.py (line 8)
    THRESHOLD_M,   \* module global THRESHOLD_M (line 9)
    costPc,        \* make_cost_matrix_full.main: "start", "done", "failed"
    costFile,      \* COST file: [written, rows]
    solverPc,      \* solve_max_coverage_full.main: "start", "solving", "done", "failed"
    elapsed,       \* time spent so far inside the pending solver.Solve() call
    status,        \* what solver.Solve() returned ("NONE" before it returns)
    x,             \* x[j].solution_value() as read on line 38
    y,             \* y[i].solution_value() as read on line 39
    chosen,        \* the list chosen (line 38)
    covered,       \* the count covered (line 39), printed on line 44
    raised,        \* the exception main ended with ("" if none)
    solFile,       \* OUT file of the solver: [written, chosen]
    evalPc,        \* evaluate_solution.main: "start", "done", "failed"
    supply,        \* SUPPLY file: the existing supply points, in file order
    supplyFixed,   \* FALSE while nothing has looked at SUPPLY: its content
                   \* is then still any file of the bounds
    newSites,      \* c_new (line 19): the points of the chosen candidates
    nearest,       \* nearest (line 27): per demand unit, in file order
    metrics,       \* OUT file of the evaluator: [written, ...] (lines 29-40)
    basePc,        \* baseline_metrics.main: "start", "done", "failed"
    baseNearest,   \* nearest of baseline_metrics.main (line 21)
    baseMetrics    \* OUT file of baseline_metrics.py: [written, ...] (lines 26-36)

\* the variables of evaluate_solution.py, and the SUPPLY file
evalVars == <<evalPc, supply, supplyFixed, newSites, nearest, metrics>>

\* the variables of baseline_metrics.py
baseVars == <<basePc, baseNearest, baseMetrics>>

vars == <<demand, cand, P, THRESHOLD_M, costPc, costFile, solverPc, elapsed,
          status, x, y, chosen, covered, raised, solFile, evalVars, baseVars>>

----------------------------------------------------------------------------
(* Bounds of the model *)

MaxDemand == 2
MaxCand == 2
MaxSolveTicks == 1

Pt(a, b) == [finite |-> TRUE, x |-> a, y |-> b]
NullPoint == [finite |-> FALSE, x |-> 0, y |-> 0]
FinitePoints == {Pt(0, 0), Pt(0, 1), Pt(1, 1)}
Points == FinitePoints \cup {NullPoint}
PValues == (-1)..(MaxCand + 1)
Thresholds == {0, 1, 2}

SeqsUpTo(S, n) == UNION {[1..k -> S] : k \in 0..n}

----------------------------------------------------------------------------
(* make_cost_matrix_full.py *)

\* Variant of Dist: only the x coordinates enter the distance.
DistXOnly(p, q) ==
    IF p.finite /\ q.finite
    THEN [nan |-> FALSE, sq |-> (p.x - q.x) * (p.x - q.x)]
    ELSE [nan |-> TRUE, sq |-> 0]

\* dist[i, j] = sqrt(((d_xy - c_xy) ** 2).sum())
Dist(p, q) ==
    IF p.finite /\ q.finite
    THEN [nan |-> FALSE, sq |-> (p.x - q.x) * (p.x - q.x) + (p.y - q.y) * (p.y - q.y)]
    ELSE [nan |-> TRUE, sq |-> 0]

\* Variant of CostRows: the costs are laid out column by column (the
\* transposed matrix is flattened) while i and j are laid out row by row.
CostRowsTransposed(d, c) ==
    LET nI == Len(d)
        nJ == Len(c)
    IN  [k \in 1..(nI * nJ) |->
            LET i == (k - 1) \div nJ
                j == (k - 1) % nJ
            IN  [i |-> i, j |-> j, candidate_id |-> j,
                 cost_m |-> Dist(d[((k - 1) % nI) + 1], c[((k - 1) \div nI) + 1])]]

\* The long table: row k (0-based) holds i = k div J (np.repeat) and
\* j = k mod J (np.tile); candidate_id is np.tile(np.arange(J), I) again.
\* demand_id (the LSOA code) is carried along and read by nobody.
CostRows(d, c) ==
    LET nI == Len(d)
        nJ == Len(c)
    IN  [k \in 1..(nI * nJ) |->
            LET i == (k - 1) \div nJ
                j == (k - 1) % nJ
            IN  [i |-> i, j |-> j, candidate_id |-> j,
                 cost_m |-> Dist(d[i + 1], c[j + 1])]]

\* A GeoJSON file with no features carries no property columns, so
\* d["LSOA21CD"] (line 25) raises KeyError for an empty demand file; this is
\* the only way main can end without writing OUT.
MakeCostMatrix ==
    /\ costPc = "start"
    /\ IF Len(demand) = 0
       THEN /\ costPc' = "failed"
            /\ UNCHANGED costFile
       ELSE /\ costPc' = "done"
            /\ costFile' = [written |-> TRUE, rows |-> CostRows(demand, cand)]
    /\ UNCHANGED <<demand, cand, P, THRESHOLD_M, solverPc, elapsed, status, x, y,
                   chosen, covered, raised, solFile, evalVars,
                   baseVars>>

----------------------------------------------------------------------------
(* solve_max_coverage_full.py: reading the cost matrix *)

RECURSIVE SortedSeq(_)
\* sorted(...unique())
SortedSeq(S) ==
    IF S = {} THEN <<>>
    ELSE LET m == CHOOSE a \in S : \A b \in S : a <= b
         IN  <<m>> \o SortedSeq(S \ {m})

Range(s) == {s[k] : k \in DOMAIN s}

\* I = sorted(df["i"].unique()),  J = sorted(df["j"].unique())
IndexI(rows) == SortedSeq({rows[k].i : k \in DOMAIN rows})
IndexJ(rows) == SortedSeq({rows[k].j : k \in DOMAIN rows})

\* Variant of LeqThreshold: the comparison is strict (< for <=).
LeqStrict(c, t) == (~c.nan) /\ t > 0 /\ c.sq < t * t

\* Variant of LeqThreshold: only a cost equal to the threshold passes.
LeqExactly(c, t) == (~c.nan) /\ t >= 0 /\ c.sq = t * t

\* df["cost_m"] <= THRESHOLD_M
LeqThreshold(c, t) == (~c.nan) /\ t >= 0 /\ c.sq <= t * t

\* Variant of Cover: a demand unit that an existing supply point already
\* serves within the threshold gets an empty cover.
CoverUnserved(rows, i, t) ==
    LET served == \E k \in DOMAIN supply :
                      LeqThreshold(Dist(demand[i + 1], supply[k]), t)
        sel == SelectSeq(rows, LAMBDA r : r.i = i /\ LeqThreshold(r.cost_m, t))
    IN  IF supplyFixed /\ served THEN <<>> ELSE [k \in DOMAIN sel |-> sel[k].j]

\* cover[i] = df[(df["i"] == i) & (df["cost_m"] <= THRESHOLD_M)]["j"].tolist()
Cover(rows, i, t) ==
    LET sel == SelectSeq(rows, LAMBDA r : r.i = i /\ LeqThreshold(r.cost_m, t))
    IN  [k \in DOMAIN sel |-> sel[k].j]

----------------------------------------------------------------------------
(* solve_max_coverage_full.py: the integer program *)

RECURSIVE SumSeq(_, _)
\* sum(v[e] for e in s)
SumSeq(v, s) == IF s = <<>> THEN 0 ELSE v[Head(s)] + SumSeq(v, Tail(s))

\* x = {j: BoolVar}, y = {i: BoolVar}: the value assignments
XValues(rows) == [Range(IndexJ(rows)) -> {0, 1}]
YValues(rows) == [Range(IndexI(rows)) -> {0, 1}]

\* Variant of EmptyCoverConstraint: no constraint is added for a demand unit
\* nobody covers, so its indicator is free.
EmptyCoverFree(i, yv) == TRUE

\* solver.Add(y[i] == 0)
EmptyCoverConstraint(i, yv) == yv[i] = 0

\* Variant of LinkConstraint: the sum runs over every candidate, not over
\* cover[i].
LinkAnyCandidate(i, cov, xv, yv) == yv[i] <= SumSeq(xv, SortedSeq(DOMAIN xv))

\* Variant of LinkConstraint: the indicator is not linked to any candidate.
LinkDropped(i, cov, xv, yv) == yv[i] <= 1

\* Variant of LinkConstraint: only the first candidate of cover[i] counts.
LinkFirstOnly(i, cov, xv, yv) == yv[i] <= xv[cov[1]]

\* solver.Add(y[i] <= sum(x[j] for j in cover[i]))
LinkConstraint(i, cov, xv, yv) == yv[i] <= SumSeq(xv, cov)

\* cover = {} ; for i in I: cover[i] = ...   (lines 17-19)
CoverMap(rows, t) == [i \in Range(IndexI(rows)) |-> Cover(rows, i, t)]

\* the body of the loop over I (lines 25-29)
CoverConstraint(cover, i, xv, yv) ==
    IF Len(cover[i]) = 0
    THEN EmptyCoverConstraint(i, yv)
    ELSE LinkConstraint(i, cover[i], xv, yv)

\* Variant of BudgetConstraint: at most P candidates (<= for ==).
BudgetAtMost(Jseq, xv, p) == SumSeq(xv, Jseq) <= p

\* solver.Add(sum(x[j] for j in J) == P); with J empty the sum is the int 0
\* and Add receives the bool 0 == P, which it turns into a constraint that is
\* satisfied when TRUE and unsatisfiable when FALSE.
BudgetConstraint(Jseq, xv, p) == SumSeq(xv, Jseq) = p

\* the constraints added on lines 25-31
Feasible(cover, Jseq, p, xv, yv) ==
    /\ \A i \in DOMAIN cover : CoverConstraint(cover, i, xv, yv)
    /\ BudgetConstraint(Jseq, xv, p)

\* Variant of Objective: the sum is minimized (Minimize for Maximize).
ObjectiveMinimized(Iseq, yv) == 0 - SumSeq(yv, Iseq)

\* solver.Maximize(sum(y[i] for i in I))
Objective(Iseq, yv) == SumSeq(yv, Iseq)

\* the assignments of the x[j], y[i] (lines 22-23) that satisfy the constraints
Solutions(rows, t, p) ==
    LET cover == CoverMap(rows, t)
        Jseq == IndexJ(rows)
    IN  {s \in [x : [Range(Jseq) -> {0, 1}], y : [DOMAIN cover -> {0, 1}]] :
            Feasible(cover, Jseq, p, s.x, s.y)}

\* Variant of OptimalAmong: every feasible assignment passes for optimal.
AnyFeasible(sols, Iseq) == sols

\* the members of sols with the largest objective
OptimalAmong(sols, Iseq) ==
    LET values == {Objective(Iseq, s.y) : s \in sols}
        best == CHOOSE v \in values : \A w \in values : w <= v
    IN  {s \in sols : Objective(Iseq, s.y) = best}

\* What solver.Solve() can return for the program built on lines 21-32
\* (pywraplp result statuses): OPTIMAL or FEASIBLE (the search was stopped
\* before optimality was proved) when some assignment is feasible, INFEASIBLE
\* when none is; ABNORMAL and NOT_SOLVED are backend failures.
SolveStatuses(sols) ==
    (IF sols = {} THEN {"INFEASIBLE"} ELSE {"OPTIMAL", "FEASIBLE"})
        \cup {"ABNORMAL", "NOT_SOLVED"}

\* The solution_value()s after Solve() returned st: an optimal assignment
\* after OPTIMAL, any feasible one after FEASIBLE, zeros otherwise.  Which
\* optimal assignment it is, is the backend's choice.
SolutionValues(st, sols, rows) ==
    CASE st = "OPTIMAL" -> OptimalAmong(sols, IndexI(rows))
      [] st = "FEASIBLE" -> sols
      [] OTHER -> {[x |-> [j \in Range(IndexJ(rows)) |-> 0],
                    y |-> [i \in Range(IndexI(rows)) |-> 0]]}

\* Variant of NotOptimal: a FEASIBLE status is accepted like OPTIMAL.
NotOptimalNorFeasible(st) == st \notin {"OPTIMAL", "FEASIBLE"}

\* if status != pywraplp.Solver.OPTIMAL
NotOptimal(st) == st # "OPTIMAL"

\* raise RuntimeError("No optimal solution found"): the exception main ends
\* with after Solve() returned st ("" when it does not raise)
RaisedFor(st) ==
    IF NotOptimal(st) THEN "RuntimeError: No optimal solution found" ELSE ""

\* chosen = [j for j in J if x[j].solution_value() > 0.5]
Chosen(Jseq, xv) == SelectSeq(Jseq, LAMBDA j : xv[j] = 1)

\* Variant of CoveredCount: the units whose indicator is 0 are counted.
UncoveredCount(Iseq, yv) == Len(SelectSeq(Iseq, LAMBDA i : yv[i] = 0))

\* covered = sum(1 for i in I if y[i].solution_value() > 0.5)
CoveredCount(Iseq, yv) == Len(SelectSeq(Iseq, LAMBDA i : yv[i] = 1))

\* main, lines 12-34: read COST, build the program, enter solver.Solve().
\* No time limit is set on the solver anywhere.
SolveCall ==
    /\ solverPc = "start"
    /\ costFile.written
    /\ solverPc' = "solving"
    /\ elapsed' = 0
    /\ UNCHANGED <<demand, cand, P, THRESHOLD_M, costPc, costFile, status, x, y,
                   chosen, covered, raised, solFile, evalVars,
                   baseVars>>

\* solver.Solve() is still running
SolveTick ==
    /\ solverPc = "solving"
    /\ elapsed < MaxSolveTicks
    /\ elapsed' = elapsed + 1
    /\ UNCHANGED <<demand, cand, P, THRESHOLD_M, costPc, costFile, solverPc, status,
                   x, y, chosen, covered, raised, solFile, evalVars,
                   baseVars>>

\* main, lines 34-45: Solve() returns; raise, or extract, write and print.
\* The solution values are read on lines 38-39 only.
SolveReturn ==
    /\ solverPc = "solving"
    /\ LET sols == Solutions(costFile.rows, THRESHOLD_M, P)
       IN  \E st \in SolveStatuses(sols) :
            /\ status' = st
            /\ raised' = RaisedFor(st)
            /\ IF NotOptimal(st)
               THEN /\ solverPc' = "failed"
                    /\ UNCHANGED <<x, y, chosen, covered, solFile>>
               ELSE \E s \in SolutionValues(st, sols, costFile.rows) :
                    /\ solverPc' = "done"
                    /\ x' = s.x
                    /\ y' = s.y
                    /\ chosen' = Chosen(IndexJ(costFile.rows), s.x)
                    /\ covered' = CoveredCount(IndexI(costFile.rows), s.y)
                    /\ solFile' = [written |-> TRUE,
                                   chosen |-> Chosen(IndexJ(costFile.rows), s.x)]
    /\ elapsed' = 0
    /\ UNCHANGED <<demand, cand, P, THRESHOLD_M, costPc, costFile, evalVars,
                   baseVars>>

----------------------------------------------------------------------------
(* evaluate_solution.py *)

MaxSupply == 1

\* Variant of ILoc: positions are counted from the end of the file.
ILocFromEnd(c, idx) == [k \in DOMAIN idx |-> c[Len(c) - idx[k]]]

\* c.iloc[chosen]: positional selection, in the order of chosen.  chosen
\* holds members of J (line 38 of the solver), which are positions of CAND.
ILoc(c, idx) == [k \in DOMAIN idx |-> c[idx[k] + 1]]

\* Variant of SupplyAll: the existing supply is left out.
SupplyNewOnly(s, cnew) == cnew

\* s_all = pd.concat([s[["geometry"]], c_new[["geometry"]]], ignore_index=True)
SupplyAll(s, cnew) == s \o cnew

\* dist[i, k] = np.sqrt(((d_xy - s_xy) ** 2).sum())   (line 26)
EvalDist(p, q) ==
    IF p.finite /\ q.finite
    THEN [nan |-> FALSE, sq |-> (p.x - q.x) * (p.x - q.x) + (p.y - q.y) * (p.y - q.y)]
    ELSE [nan |-> TRUE, sq |-> 0]

\* one entry of dist.min(axis=1): np.min propagates NaN, so the entry is NaN
\* as soon as one distance of the row is; pts is not empty.
RowMin(p, pts) ==
    LET row == [k \in DOMAIN pts |-> EvalDist(p, pts[k])]
    IN  IF \E k \in DOMAIN row : row[k].nan
        THEN [nan |-> TRUE, sq |-> 0]
        ELSE row[CHOOSE k \in DOMAIN row : \A m \in DOMAIN row : row[k].sq <= row[m].sq]

\* nearest = dist.min(axis=1)
Nearest(d, pts) == [i \in DOMAIN d |-> RowMin(d[i], pts)]

\* nearest <= THRESHOLD_M   (line 35)
NearestLeq(n, t) == (~n.nan) /\ t >= 0 /\ n.sq <= t * t

\* float((nearest <= THRESHOLD_M).mean()): the fraction num / den
CoverageFraction(nr, t) ==
    [num |-> Cardinality({i \in DOMAIN nr : NearestLeq(nr[i], t)}),
     den |-> Len(nr)]

\* the metrics dictionary (lines 29-37).  mean_nearest_m and median_nearest_m
\* are further aggregates of nearest; nearest itself is kept as a variable.
Metrics(d, s, ch, nr, t) ==
    [written |-> TRUE,
     n_demand_units |-> Len(d),
     n_existing_supply |-> Len(s),
     n_new_sites |-> Len(ch),
     coverage_1km |-> CoverageFraction(nr, t),
     threshold_m |-> t]

NoMetrics ==
    [written |-> FALSE, n_demand_units |-> 0, n_existing_supply |-> 0,
     n_new_sites |-> 0, coverage_1km |-> [num |-> 0, den |-> 0], threshold_m |-> 0]

\* what a script that opens SUPPLY finds in it
SupplyContents ==
    IF supplyFixed THEN {supply} ELSE SeqsUpTo(FinitePoints, MaxSupply)

\* main of evaluate_solution.py, run once the solver has written its OUT.
\* s is the content of SUPPLY; t is the script's own module global THRESHOLD_M
\* (line 12).  With no existing supply and no chosen candidate dist has no
\* column and dist.min(axis=1) raises ValueError.
Evaluate ==
    /\ evalPc = "start"
    /\ solFile.written
    /\ \E s \in SupplyContents, t \in Thresholds :
        LET c_new == ILoc(cand, solFile.chosen)
            s_all == SupplyAll(s, c_new)
        IN  /\ supply' = s
            /\ supplyFixed' = TRUE
            /\ newSites' = c_new
            /\ IF Len(s_all) = 0
               THEN /\ evalPc' = "failed"
                    /\ UNCHANGED <<nearest, metrics>>
               ELSE /\ evalPc' = "done"
                    /\ nearest' = Nearest(demand, s_all)
                    /\ metrics' = Metrics(demand, s, solFile.chosen,
                                          Nearest(demand, s_all), t)
    /\ UNCHANGED <<demand, cand, P, THRESHOLD_M, costPc, costFile, solverPc, elapsed,
                   status, x, y, chosen, covered, raised, solFile, baseVars>>

----------------------------------------------------------------------------
(* baseline_metrics.py *)

\* dist = np.sqrt(...) ; nearest = dist.min(axis=1)   (lines 20-21): the
\* expressions of evaluate_solution.py lines 26-27, over the existing supply
BaseNearest(d, s) == [i \in DOMAIN d |-> RowMin(d[i], s)]

\* d["covered_1km"] = (d["nearest_m"] <= THRESHOLD_M).astype(int)   (line 24)
BaseCovered(n, t) == IF (~n.nan) /\ t >= 0 /\ n.sq <= t * t THEN 1 ELSE 0

\* float(d["covered_1km"].mean()): the fraction num / den
BaseCoverage(nr, t) ==
    [num |-> SumSeq([i \in DOMAIN nr |-> BaseCovered(nr[i], t)],
                    [i \in DOMAIN nr |-> i]),
     den |-> Len(nr)]

\* the metrics dictionary (lines 26-33), without the mean and the median
BaseMetrics(d, s, nr, t) ==
    [written |-> TRUE,
     n_demand_units |-> Len(d),
     n_supply_points |-> Len(s),
     coverage_1km |-> BaseCoverage(nr, t),
     threshold_m |-> t]

NoBaseMetrics ==
    [written |-> FALSE, n_demand_units |-> 0, n_supply_points |-> 0,
     coverage_1km |-> [num |-> 0, den |-> 0], threshold_m |-> 0]

\* main of baseline_metrics.py; it needs no file of the other scripts.  t is
\* the script's own module global THRESHOLD_M (line 10).  With no existing
\* supply dist has no column and dist.min(axis=1) raises ValueError.
Baseline ==
    /\ basePc = "start"
    /\ \E s \in SupplyContents, t \in Thresholds :
        /\ supply' = s
        /\ supplyFixed' = TRUE
        /\ IF Len(s) = 0
           THEN /\ basePc' = "failed"
                /\ UNCHANGED <<baseNearest, baseMetrics>>
           ELSE /\ basePc' = "done"
                /\ baseNearest' = BaseNearest(demand, s)
                /\ baseMetrics' = BaseMetrics(demand, s, BaseNearest(demand, s), t)
    /\ UNCHANGED <<demand, cand, P, THRESHOLD_M, costPc, costFile, solverPc, elapsed,
                   status, x, y, chosen, covered, raised, solFile,
                   evalPc, newSites, nearest, metrics>>

----------------------------------------------------------------------------
(* The pipeline *)

\* no script has run yet
NoScriptRun ==
    /\ costPc = "start"
    /\ costFile = [written |-> FALSE, rows |-> <<>>]
    /\ solverPc = "start"
    /\ elapsed = 0
    /\ status = "NONE"
    /\ x = <<>>
    /\ y = <<>>
    /\ chosen = <<>>
    /\ covered = 0
    /\ raised = ""
    /\ solFile = [written |-> FALSE, chosen |-> <<>>]
    /\ evalPc = "start"
    /\ newSites = <<>>
    /\ nearest = <<>>
    /\ metrics = NoMetrics
    /\ basePc = "start"
    /\ baseNearest = <<>>
    /\ baseMetrics = NoBaseMetrics

\* nothing has run yet and nothing has looked at SUPPLY
NothingRun ==
    /\ NoScriptRun
    /\ supply = <<>>
    /\ supplyFixed = FALSE

Init ==
    /\ demand \in SeqsUpTo(Points, MaxDemand)
    /\ cand \in SeqsUpTo(Points, MaxCand)
    /\ P \in PValues
    /\ THRESHOLD_M \in Thresholds
    /\ NothingRun

\* the cost-matrix script and the solver
Next ==
    \/ MakeCostMatrix
    \/ SolveCall
    \/ SolveTick
    \/ SolveReturn

Spec == Init /\ [][Next]_vars

\* inputs whose coordinates are all finite
InitFinite ==
    /\ demand \in SeqsUpTo(FinitePoints, MaxDemand)
    /\ cand \in SeqsUpTo(FinitePoints, MaxCand)
    /\ P \in PValues
    /\ THRESHOLD_M \in Thresholds
    /\ NothingRun

NextEval ==
    \/ MakeCostMatrix
    \/ SolveCall
    \/ SolveTick
    \/ SolveReturn
    \/ Evaluate

\* the whole pipeline, the evaluator included, on finite coordinates
SpecEval == InitFinite /\ [][NextEval]_vars

\* the cost-matrix script and the solver on finite coordinates
SpecSolve == InitFinite /\ [][Next]_vars

\* The cost-matrix script and the solver next to a SUPPLY file whose content
\* is fixed from the start, on finite coordinates.
SupplyThresholds == {1}

InitSupply ==
    /\ demand \in SeqsUpTo(FinitePoints, MaxDemand)
    /\ cand \in SeqsUpTo(FinitePoints, MaxCand)
    /\ P \in 0..MaxCand
    /\ THRESHOLD_M \in SupplyThresholds
    /\ supply \in SeqsUpTo(FinitePoints, MaxSupply)
    /\ supplyFixed = TRUE
    /\ NoScriptRun

SpecSupply == InitSupply /\ [][Next]_vars

\* The whole pipeline and the baseline script; the candidate file may hold
\* points without finite coordinates.
InitAudit ==
    /\ demand \in SeqsUpTo(FinitePoints, MaxDemand)
    /\ cand \in SeqsUpTo(Points, MaxCand)
    /\ P \in PValues
    /\ THRESHOLD_M \in Thresholds
    /\ NothingRun

NextAudit ==
    \/ MakeCostMatrix
    \/ SolveCall
    \/ SolveTick
    \/ SolveReturn
    \/ Evaluate
    \/ Baseline

SpecAudit == InitAudit /\ [][NextAudit]_vars

\* The cost-matrix script and the solver on the three demand points and two
\* candidate points of the worked scenario, and on shorter or reordered
\* inputs made of the same points.
ScenarioDemand == <<Pt(0, 0), Pt(10, 0), Pt(0, 10)>>
ScenarioCand == <<Pt(0, 1), Pt(10, 1)>>
ScenarioThresholds == {2}

InitScenario ==
    /\ demand \in SeqsUpTo(Range(ScenarioDemand), Len(ScenarioDemand))
    /\ cand \in SeqsUpTo(Range(ScenarioCand), Len(ScenarioCand))
    /\ P \in 0..Len(ScenarioCand)
    /\ THRESHOLD_M \in ScenarioThresholds
    /\ NothingRun

SpecScenario == InitScenario /\ [][Next]_vars

----------------------------------------------------------------------------
(* Vocabulary of the properties *)

Rows == costFile.rows
Iset == Range(IndexI(Rows))
Jset == Range(IndexJ(Rows))
CoverSet(i) == Range(Cover(Rows, i, THRESHOLD_M))
Finished == solverPc \in {"done", "failed"}
SolutionReturned == solverPc = "done"

\* the demand units that a set S of candidates covers
CoveredBy(S) == {i \in Iset : CoverSet(i) \cap S # {}}

\* the best count any P-subset of the candidates reaches
SubsetsOfSize(n) == {S \in SUBSET Jset : Cardinality(S) = n}
MaxCoverage(n) ==
    CHOOSE m \in 0..Cardinality(Iset) :
        /\ \E S \in SubsetsOfSize(n) : Cardinality(CoveredBy(S)) = m
        /\ \A S \in SubsetsOfSize(n) : Cardinality(CoveredBy(S)) <= m

Statuses == {"OPTIMAL", "FEASIBLE", "INFEASIBLE", "ABNORMAL", "NOT_SOLVED"}

\* the four outcome classes of the specification
OutcomeClass(st) ==
    CASE st = "OPTIMAL" -> "Optimal"
      [] st = "FEASIBLE" -> "Feasible-suboptimal"
      [] st = "INFEASIBLE" -> "Infeasible"
      [] OTHER -> "Error"

\* what a caller of main observes once it has ended after status st
Observed(st) == [raised |-> RaisedFor(st), wrote |-> ~NotOptimal(st)]

\* what the caller observes of this run
ObservedNow == [raised |-> raised, wrote |-> solFile.written]

ValidInput ==
    /\ Len(demand) > 0
    /\ Len(cand) > 0
    /\ \A k \in DOMAIN demand : demand[k].finite
    /\ \A k \in DOMAIN cand : cand[k].finite

BadConfig == P <= 0 \/ THRESHOLD_M <= 0 \/ P > Len(cand)

----------------------------------------------------------------------------
(* Properties *)

\* C1: whenever main has written the solution artifact, the list of chosen
\* candidate indices has exactly P entries, all distinct, each an index j of
\* the cost matrix.
C1_ChosenExactlyP ==
    solFile.written =>
        /\ Len(solFile.chosen) = P
        /\ \A a, b \in DOMAIN solFile.chosen :
               a # b => solFile.chosen[a] # solFile.chosen[b]
        /\ \A a \in DOMAIN solFile.chosen : solFile.chosen[a] \in Jset

C1_Witness ==
    /\ solFile.written
    /\ P >= 1
    /\ P < Cardinality(Jset)

\* C2: on a successful solve 0 <= P <= |J| and the covered count main reports
\* is the maximum, over the subsets S of J with |S| = P, of the number of
\* demand units whose cover intersects S.
C2_ObjectiveIsMaximum ==
    solverPc = "done" =>
        /\ 0 <= P
        /\ P <= Cardinality(Jset)
        /\ covered = MaxCoverage(P)

\* a solved instance where some P-subset does worse than the reported count
C2_Witness ==
    /\ solverPc = "done"
    /\ covered >= 1
    /\ \E S \in SubsetsOfSize(P) : Cardinality(CoveredBy(S)) < covered

\* C3: in the result of every successful solve, a demand unit with an empty
\* coverage set has its covered indicator at 0, whatever P and whichever
\* candidates are selected, so the reported count is at most the number of
\* coverable units.
C3_EmptyCoverNeverCovered ==
    /\ SolutionReturned => \A i \in Iset : CoverSet(i) = {} => y[i] = 0
    /\ solverPc = "done" => covered <= Cardinality({i \in Iset : CoverSet(i) # {}})

C3_Witness ==
    /\ solverPc = "done"
    /\ P >= 1
    /\ covered >= 1
    /\ \E i \in Iset : CoverSet(i) = {} /\ y[i] = 0

\* C4: in the result of every successful solve, a demand unit with a non-empty
\* coverage set is marked covered only if a candidate of its coverage set is
\* selected, that is, is in the chosen list.
C4_CoveredOnlyIfSelected ==
    SolutionReturned =>
        \A i \in Iset :
            (CoverSet(i) # {} /\ y[i] = 1) =>
                /\ \E j \in CoverSet(i) : x[j] = 1
                /\ CoverSet(i) \cap Range(solFile.chosen) # {}

\* one coverable unit is covered while another coverable unit is not
C4_Witness ==
    /\ solverPc = "done"
    /\ \E i \in Iset : CoverSet(i) # {} /\ y[i] = 1
    /\ \E i \in Iset : CoverSet(i) # {} /\ y[i] = 0

\* C5 (as claimed): with fewer candidates than P, main ends without a solution
\* artifact and with a report that says Infeasible: one that it gives for no
\* status outside that class.
C5_FewerCandidatesReportsInfeasible ==
    (Finished /\ Cardinality(Jset) < P) =>
        /\ ~solFile.written
        /\ \A st \in Statuses :
               OutcomeClass(st) # "Infeasible" => Observed(st) # ObservedNow

\* C6 (as claimed): what the caller observes when main has ended tells the
\* four outcome classes apart: no status of another class is reported the
\* same way.
C6_OutcomesDistinguishable ==
    Finished =>
        \A st \in Statuses :
            OutcomeClass(st) # OutcomeClass(status) => Observed(st) # ObservedNow

\* C7 (as claimed): the solve does not stay blocked beyond a budget: for every
\* budget b (in ticks) a Solve() call that has run for more than b ticks has
\* returned, and a solve that was stopped with a solution in hand (FEASIBLE)
\* hands that solution out.
C7_SolveReturnsOnBudget ==
    /\ \A b \in 0..(MaxSolveTicks - 1) : solverPc = "solving" => elapsed <= b
    /\ (Finished /\ status = "FEASIBLE") => solFile.written

\* C8: the solution artifact is written and a covered count is reported only
\* when the status is OPTIMAL; after any other status main has raised, has
\* written nothing and has reported no count.
C8_WrittenOnlyWhenOptimal ==
    /\ (solFile.written \/ solverPc = "done") => status = "OPTIMAL"
    /\ (status \in Statuses \ {"OPTIMAL"}) =>
           /\ solverPc = "failed"
           /\ raised # ""
           /\ ~solFile.written
           /\ covered = 0
           /\ chosen = <<>>

\* the solver stopped with a covering solution in hand, and main discarded it
C8_Witness ==
    /\ status = "FEASIBLE"
    /\ solverPc = "failed"
    /\ \E S \in SubsetsOfSize(P) : CoveredBy(S) # {}
    /\ ~solFile.written

\* C9 (as claimed): with P <= 0, threshold <= 0 or P above the number of
\* candidates, main never enters the solve, and it ends with an error that no
\* solver status produces.
C9_BadConfigRejectedBeforeSolve ==
    (costFile.written /\ BadConfig) =>
        /\ solverPc \notin {"solving", "done"}
        /\ status = "NONE"
        /\ solverPc = "failed" => \A st \in Statuses : raised # RaisedFor(st)

\* C10 (as claimed): an invalid input (empty demand or candidate set, a
\* non-finite coordinate) never yields a cost-matrix artifact.  Candidate
\* identifiers are positions in the file, so they cannot repeat.
C10_InvalidInputNoArtifact ==
    ~ValidInput => (costPc # "done" /\ ~costFile.written)

\* the squared distance between two points with finite coordinates
SqDist(p, q) == (p.x - q.x) * (p.x - q.x) + (p.y - q.y) * (p.y - q.y)

\* q lies within distance t >= 0 of p
Within(p, q, t) == p.finite /\ q.finite /\ SqDist(p, q) <= t * t

\* C11: cover(i) is exactly the set of candidates j whose distance to demand
\* unit i is at most the threshold, equality included, and the evaluator
\* counts a unit exactly when its nearest distance is at most its threshold,
\* equality included.
C11_CoverIsWithinThreshold ==
    /\ costFile.written =>
           \A i \in Iset :
               CoverSet(i) = {j \in Jset : Within(demand[i + 1], cand[j + 1], THRESHOLD_M)}
    /\ evalPc = "done" =>
           metrics.coverage_1km.num =
               Cardinality({i \in DOMAIN nearest :
                   /\ ~nearest[i].nan
                   /\ nearest[i].sq <= metrics.threshold_m * metrics.threshold_m})

\* a candidate at exactly the threshold is in the cover and a farther one is
\* not, and the evaluator counted a unit whose nearest distance is exactly
\* its threshold
C11_Witness ==
    /\ evalPc = "done"
    /\ THRESHOLD_M >= 1
    /\ \E i \in Iset : \E j, k \in Jset :
           /\ SqDist(demand[i + 1], cand[j + 1]) = THRESHOLD_M * THRESHOLD_M
           /\ j \in CoverSet(i)
           /\ SqDist(demand[i + 1], cand[k + 1]) > THRESHOLD_M * THRESHOLD_M
           /\ k \notin CoverSet(i)
    /\ metrics.threshold_m >= 1
    /\ metrics.coverage_1km.num = 1
    /\ \E i \in DOMAIN nearest :
           /\ ~nearest[i].nan
           /\ nearest[i].sq = metrics.threshold_m * metrics.threshold_m

\* a / b <= c / d for fractions over the same positive denominators
FracLeq(a, b) == a.num * b.den <= b.num * a.den

\* C12: for thresholds t1 < t2 the cover of every demand unit at t1 is
\* contained in its cover at t2, and the coverage fraction the evaluator
\* computes at t1 is at most the one it computes at t2; in particular the
\* fraction it wrote is between those of the smaller and the larger thresholds.
C12_MonotoneInThreshold ==
    /\ costFile.written =>
           \A t1, t2 \in Thresholds :
               t1 < t2 =>
                   \A i \in Iset :
                       Range(Cover(Rows, i, t1)) \subseteq Range(Cover(Rows, i, t2))
    /\ evalPc = "done" =>
           /\ \A t1, t2 \in Thresholds :
                  t1 < t2 =>
                      FracLeq(CoverageFraction(nearest, t1), CoverageFraction(nearest, t2))
           /\ \A t \in Thresholds :
                  /\ t < metrics.threshold_m =>
                         FracLeq(CoverageFraction(nearest, t), metrics.coverage_1km)
                  /\ t > metrics.threshold_m =>
                         FracLeq(metrics.coverage_1km, CoverageFraction(nearest, t))

\* both the cover of a unit and the coverage fraction grow strictly between
\* two thresholds
C12_Witness ==
    /\ evalPc = "done"
    /\ \E t \in Thresholds : \E i \in Iset :
           /\ t < THRESHOLD_M
           /\ Range(Cover(Rows, i, t)) # CoverSet(i)
           /\ Range(Cover(Rows, i, t)) # {}
    /\ \E t \in Thresholds :
           /\ t < metrics.threshold_m
           /\ CoverageFraction(nearest, t).num >= 1
           /\ CoverageFraction(nearest, t).num < metrics.coverage_1km.num

\* the counts main can print for the cost matrix and threshold of this run
\* when its budget is p and Solve() returns OPTIMAL (none if p is infeasible)
ReportedFor(p) ==
    LET sols == Solutions(Rows, THRESHOLD_M, p)
    IN  IF sols = {} THEN {}
        ELSE {CoveredCount(IndexI(Rows), s.y) : s \in OptimalAmong(sols, IndexI(Rows))}

\* C13: for a fixed cost matrix and threshold the optimum does not decrease
\* with the budget: every budget 0..|J| is feasible and for
\* 0 <= P1 <= P2 <= |J| every successful solve with budget P1 reports at most
\* what every successful solve with budget P2 reports, although exactly P
\* candidates must be chosen.
C13_OptimumMonotoneInP ==
    solverPc = "done" =>
        /\ \A p1 \in 0..P : \A c1 \in ReportedFor(p1) : c1 <= covered
        /\ \A p2 \in P..Cardinality(Jset) : \A c2 \in ReportedFor(p2) : covered <= c2
        /\ \A p \in 0..Cardinality(Jset) : ReportedFor(p) # {}

\* a solved instance with a smaller budget that covers strictly less and a
\* larger budget that covers no more
C13_Witness ==
    /\ solverPc = "done"
    /\ P >= 1
    /\ P < Cardinality(Jset)
    /\ \E c1 \in ReportedFor(P - 1) : c1 < covered
    /\ \E c2 \in ReportedFor(P + 1) : c2 = covered

\* C14: with P = 0 the program is feasible, and a successful solve reports
\* 0 covered units and an empty chosen list, in memory and in the artifact.
C14_ZeroBudget ==
    /\ (Finished /\ P = 0) => status # "INFEASIBLE"
    /\ (solverPc = "done" /\ P = 0) =>
           /\ covered = 0
           /\ chosen = <<>>
           /\ solFile.chosen = <<>>
           /\ \A i \in Iset : y[i] = 0
           /\ \A j \in Jset : x[j] = 0

\* solved with P = 0 although a demand unit is coverable
C14_Witness ==
    /\ solverPc = "done"
    /\ P = 0
    /\ solFile.written
    /\ \E i \in Iset : CoverSet(i) # {}

\* the demand units some candidate covers
Coverable == {i \in Iset : CoverSet(i) # {}}

\* C15: when P <= |J| is at least the smallest number of candidates whose
\* covers together hold every coverable demand unit, a successful solve
\* reports exactly the number of demand units with a non-empty cover.
C15_FullCoverageWhenEnoughSites ==
    (solverPc = "done" /\ \E S \in SUBSET Jset :
                              Cardinality(S) <= P /\ CoveredBy(S) = Coverable) =>
        covered = Cardinality(Coverable)

\* P is exactly that smallest number, below |J|, with two coverable units
C15_Witness ==
    /\ solverPc = "done"
    /\ P >= 1
    /\ P < Cardinality(Jset)
    /\ Cardinality(Coverable) >= 2
    /\ \E S \in SubsetsOfSize(P) : CoveredBy(S) = Coverable
    /\ \A S \in SUBSET Jset : Cardinality(S) < P => CoveredBy(S) # Coverable
    /\ covered = Cardinality(Coverable)

\* the run is on the inputs of the worked scenario
ScenarioRun ==
    /\ demand = ScenarioDemand
    /\ cand = ScenarioCand
    /\ THRESHOLD_M = 2

\* C16: on demand points (0,0), (10,0), (0,10), candidates (0,1), (10,1) and
\* threshold 2 the cover lists are [0], [1] and [] ; a successful solve
\* reports 0 for P = 0, 1 for P = 1 and 2 for P = 2, and never covers the third
\* demand point.
C16_Scenario ==
    ScenarioRun =>
        /\ costFile.written =>
               /\ Cover(Rows, 0, THRESHOLD_M) = <<0>>
               /\ Cover(Rows, 1, THRESHOLD_M) = <<1>>
               /\ Cover(Rows, 2, THRESHOLD_M) = <<>>
        /\ solverPc = "done" =>
               /\ P = 0 => covered = 0
               /\ P = 1 => covered = 1
               /\ P = 2 => covered = 2
               /\ y[2] = 0

\* the scenario solved with P = 1, one of its two demand points covered
C16_Witness ==
    /\ ScenarioRun
    /\ solverPc = "done"
    /\ P = 1
    /\ covered = 1
    /\ solFile.chosen = <<1>>
    /\ y[1] = 1
    /\ y[0] = 0

\* the points the evaluator measures to: the existing supply it read and
\* the candidates at the positions the solver wrote
SupplyUnion == Range(supply) \cup {cand[j + 1] : j \in Range(solFile.chosen)}

C18_SolutionRoundTrip ==
    evalPc \in {"done", "failed"} =>
        /\ solFile.chosen = chosen
        /\ Len(newSites) = Len(chosen)
        /\ \A k \in DOMAIN newSites :
               /\ x[chosen[k]] = 1
               /\ newSites[k] = cand[chosen[k] + 1]
               /\ \A n \in DOMAIN Rows :
                      Rows[n].j = chosen[k] =>
                          Rows[n].cost_m = Dist(demand[Rows[n].i + 1], newSites[k])
        /\ \A j \in Jset : x[j] = 1 => \E k \in DOMAIN newSites : chosen[k] = j
        /\ evalPc = "done" => metrics.n_new_sites = Len(newSites)

\* the second of two different candidates was chosen and evaluated
C18_Witness ==
    /\ evalPc = "done"
    /\ Len(cand) = 2
    /\ cand[1] # cand[2]
    /\ solFile.chosen = <<1>>
    /\ newSites = <<cand[2]>>
    /\ \E n \in DOMAIN Rows :
           Rows[n].j = 0 /\ Rows[n].cost_m # Dist(demand[Rows[n].i + 1], cand[2])

\* the distance between two points, NaN when a coordinate is not finite
DistanceOf(p, q) ==
    IF p.finite /\ q.finite
    THEN [nan |-> FALSE, sq |-> SqDist(p, q)]
    ELSE [nan |-> TRUE, sq |-> 0]

\* C19: the cost-matrix artifact of I demand units and J candidates has I*J
\* rows; every pair (i, j) with 0 <= i < I and 0 <= j < J is in exactly one
\* row, and that row has candidate_id = j and the distance between demand
\* unit i and candidate j as its cost.
C19_OneRowPerPair ==
    costFile.written =>
        /\ Len(Rows) = Len(demand) * Len(cand)
        /\ \A i \in 0..(Len(demand) - 1) : \A j \in 0..(Len(cand) - 1) :
               Cardinality({n \in DOMAIN Rows : Rows[n].i = i /\ Rows[n].j = j}) = 1
        /\ \A n \in DOMAIN Rows :
               /\ Rows[n].i \in 0..(Len(demand) - 1)
               /\ Rows[n].j \in 0..(Len(cand) - 1)
               /\ Rows[n].candidate_id = Rows[n].j
               /\ Rows[n].cost_m = DistanceOf(demand[Rows[n].i + 1], cand[Rows[n].j + 1])

\* a 2 x 2 matrix whose off-diagonal costs differ
C19_Witness ==
    /\ costFile.written
    /\ Len(demand) = 2
    /\ Len(cand) = 2
    /\ Len(Rows) = 4
    /\ \E n, m \in DOMAIN Rows :
           /\ Rows[n].i = 0 /\ Rows[n].j = 1
           /\ Rows[m].i = 1 /\ Rows[m].j = 0
           /\ ~Rows[n].cost_m.nan
           /\ ~Rows[m].cost_m.nan
           /\ Rows[n].cost_m # Rows[m].cost_m

CandCovers(i) == {j \in Jset : Within(demand[i + 1], cand[j + 1], THRESHOLD_M)}

\* the demand units within the solver's threshold of a candidate of S
UnitsNear(S) == {i \in Iset : CandCovers(i) \cap S # {}}

\* demand unit i is within the solver's threshold of an existing supply point
Served(i) == \E k \in DOMAIN supply : Within(demand[i + 1], supply[k], THRESHOLD_M)

\* C21: whatever the existing-supply file holds, a successful solve marks a
\* demand unit covered exactly when a chosen candidate is within the
\* threshold of it, also a unit that an existing supply point already serves,
\* and the count it reports is the best that P candidates reach, a quantity
\* of the demand points, the candidate points, the threshold and P alone.
C21_SolverIgnoresSupply ==
    solverPc = "done" =>
        /\ \A i \in Iset : y[i] = 1 <=> CandCovers(i) \cap Range(chosen) # {}
        /\ covered = Cardinality(UnitsNear(Range(chosen)))
        /\ \A S \in SubsetsOfSize(P) : Cardinality(UnitsNear(S)) <= covered

\* a unit served by the existing supply is counted as covered by the solver,
\* while another choice of P candidates would have covered less
C21_Witness ==
    /\ solverPc = "done"
    /\ Len(supply) >= 1
    /\ P >= 1
    /\ \E i \in Iset : Served(i) /\ y[i] = 1 /\ CandCovers(i) \cap Range(chosen) # {}
    /\ \E S \in SubsetsOfSize(P) : Cardinality(UnitsNear(S)) < covered

\* a <= b for two distances; false when one of them is NaN
DistLeq(a, b) == (~a.nan) /\ (~b.nan) /\ a.sq <= b.sq

\* the baseline and the evaluation were both made, at one threshold
ComparableRuns ==
    /\ basePc = "done"
    /\ evalPc = "done"
    /\ baseMetrics.threshold_m = metrics.threshold_m

\* C22 (as claimed): for the same demand, existing supply and threshold the
\* evaluation after a solution is never worse than the baseline: no demand
\* unit's nearest distance grows and the coverage fraction does not fall,
\* whatever set was chosen.
C22_NeverWorseThanBaseline ==
    ComparableRuns =>
        /\ \A i \in DOMAIN demand : DistLeq(nearest[i], baseNearest[i])
        /\ FracLeq(baseMetrics.coverage_1km, metrics.coverage_1km)

\* the demand units (positions in the file) that an existing supply point
\* serves within threshold t and no chosen candidate does
ServedOnlyBySupply(t) ==
    {i \in DOMAIN demand :
        /\ \E k \in DOMAIN supply : Within(demand[i], supply[k], t)
        /\ \A j \in Range(solFile.chosen) : ~Within(demand[i], cand[j + 1], t)}

\* C23 (as claimed): when the evaluator ran at the solver's threshold, the
\* number of demand units it finds covered is at least the covered count the
\* solver reported, and exceeds it by exactly the units that existing supply
\* serves and no chosen candidate does.
C23_EvaluatorCountsAtLeastSolver ==
    (evalPc = "done" /\ metrics.threshold_m = THRESHOLD_M) =>
        /\ metrics.coverage_1km.num >= covered
        /\ metrics.coverage_1km.num - covered =
               Cardinality(ServedOnlyBySupply(THRESHOLD_M))

\* C24: in the result of every successful solve the covered indicator of a
\* demand unit is 1 if and only if a chosen candidate is in its coverage set,
\* so the printed count is the number of demand units that have a chosen
\* candidate within the threshold.
C24_IndicatorIffChosenCovers ==
    solverPc = "done" =>
        /\ \A i \in Iset : y[i] = 1 <=> CoverSet(i) \cap Range(solFile.chosen) # {}
        /\ covered = Cardinality(CoveredBy(Range(solFile.chosen)))
        /\ covered = Cardinality({i \in Iset : \E j \in Range(solFile.chosen) :
                                      Within(demand[i + 1], cand[j + 1], THRESHOLD_M)})

\* one chosen candidate of two covers two demand units, both marked
C24_Witness ==
    /\ solverPc = "done"
    /\ P = 1
    /\ Cardinality(Jset) = 2
    /\ covered = 2
    /\ \A i \in Iset : y[i] = 1

====
